---- MODULE Spec2Model ----
(***************************************************************************)
(* Model of nrnlibrary/an_model/wrapper.py: the lazily created MATLAB      *)
(* worker handle (_proc / get_matlab) and the three calls marshalled       *)
(* through it (model_ihc, model_synapse, seed_rng).                        *)
(*                                                                         *)
(* Numbers.  A Python int n is I(n).  A Python float is F(m), the value    *)
(* m/10 (one decimal digit is kept so that int() has something to          *)
(* truncate).  A MatlabReference is R(k).  An ndarray is A1(n) / A2(r,c):  *)
(* its field v is the 1-D sequence or the sequence of rows.                *)
(***************************************************************************)
EXTENDS Integers, Sequences, FiniteSets, TLC

MaxSize == 4        \* largest number of samples in a waveform
MaxCtorFails == 1   \* how many times the MatlabProcess constructor may raise
MaxSent == 1        \* how many of the last worker commands are remembered
NThreads == 2       \* concurrent callers of get_matlab

VARIABLES
    proc,        \* the module-level handle _proc
    ctorCalls,   \* how many times MatlabProcess(...) was called
    created,     \* how many times it returned an instance
    anyReached,  \* some call has reached get_matlab
    nargout,     \* the nargout attribute of the worker's two functions
    sent,        \* the last commands sent to the worker by ml(cmd)
    last,        \* the last completed call: inputs, what was forwarded, result
    pc, via, tmp, got  \* concurrent callers: position, entry point, locals

vars == <<proc, ctorCalls, created, anyReached, nargout, sent, last, pc, via, tmp, got>>
thrVars == <<pc, via, tmp, got>>

----------------------------------------------------------------------------
(* Values *)

I(n) == [t |-> "int", v |-> n]
F(m) == [t |-> "float", v |-> m]
R(k) == [t |-> "ref", v |-> k]
A1(n) == [t |-> "ndarray1", v |-> [i \in 1..n |-> i]]
A2(r, c) == [t |-> "ndarray2", v |-> [i \in 1..r |-> [j \in 1..c |-> (i - 1) * c + j]]]

IsRef(x) == x.t = "ref"
IsArray(x) == x.t \in {"ndarray1", "ndarray2"}

\* value of a number in tenths
Tenths(x) == IF x.t = "int" THEN 10 * x.v ELSE x.v

\* float(x)
ToFloat(x) == F(Tenths(x))

\* rounding down in place of truncation
ToIntFloor(x) ==
    IF x.t = "int" THEN x
    ELSE IF x.v >= 0 THEN I(x.v \div 10) ELSE I(-((-x.v + 9) \div 10))

\* int(x): truncation toward zero
ToInt(x) ==
    IF x.t = "int" THEN x
    ELSE IF x.v >= 0 THEN I(x.v \div 10) ELSE I(-((-x.v) \div 10))

RECURSIVE Concat(_)
Concat(rows) == IF rows = <<>> THEN <<>> ELSE Head(rows) \o Concat(Tail(rows))

\* the elements of an array in Fortran order
RavelF(a) ==
    IF a.t = "ndarray1" THEN a.v
    ELSE [k \in 1..(Len(a.v) * Len(a.v[1])) |->
            a.v[((k - 1) % Len(a.v)) + 1][((k - 1) \div Len(a.v)) + 1]]

\* the elements of an array in C order
Ravel(a) == IF a.t = "ndarray1" THEN a.v ELSE Concat(a.v)

\* a.size
Size(a) == Len(Ravel(a))

\* a.reshape(1, a.size)
RowVector(a) == [t |-> "ndarray2", v |-> <<Ravel(a)>>]

----------------------------------------------------------------------------
(* The process handle *)

None == [id |-> 0, cwd |-> <<>>]

\* __file__ of the wrapper module, as path components
ModuleFile == <<"nrnlibrary", "an_model", "wrapper.py">>

\* os.path.dirname(p)
Dirname(p) == SubSeq(p, 1, Len(p) - 1)

\* the module's own directory, 'model' not joined
ModelPathNoJoin == Dirname(ModuleFile)

\* os.path.join(os.path.dirname(__file__), 'model')
ModelPath == Dirname(ModuleFile) \o <<"model">>

\* matlab_proc.MatlabProcess(cwd=model_path): the n-th instance made
MatlabProcess(n, cwd) == [id |-> n, cwd |-> cwd]

\* what the constructor call of line 14 can do: it runs only when the handle
\* is None, and may raise while fewer than MaxCtorFails attempts have failed
CtorOutcomes(p, calls, made) ==
    IF p # None THEN {"skip"}
    ELSE IF calls - made < MaxCtorFails THEN {"ok", "raise"} ELSE {"ok"}

\* get_matlab without the test of line 11
GetMatlabAlways(p, made, ctor) ==
    IF ctor = "raise"
    THEN [proc |-> p, ml |-> None, ctor |-> 1, made |-> 0, exc |-> "CtorError"]
    ELSE [proc |-> MatlabProcess(made + 1, Dirname(ModuleFile) \o <<"model">>),
          ml |-> MatlabProcess(made + 1, Dirname(ModuleFile) \o <<"model">>),
          ctor |-> 1, made |-> 1, exc |-> "none"]

\* get_matlab storing the handle before the constructor has returned
GetMatlabStoreEarly(p, made, ctor) ==
    IF p = None
    THEN IF ctor = "ok"
         THEN [proc |-> MatlabProcess(made + 1, Dirname(ModuleFile) \o <<"model">>),
               ml |-> MatlabProcess(made + 1, Dirname(ModuleFile) \o <<"model">>),
               ctor |-> 1, made |-> 1, exc |-> "none"]
         ELSE [proc |-> MatlabProcess(made + 1, <<>>), ml |-> None,
               ctor |-> 1, made |-> 0, exc |-> "CtorError"]
    ELSE [proc |-> p, ml |-> p, ctor |-> 0, made |-> 0, exc |-> "none"]

\* get_matlab() run to completion on handle p: the new handle, the value
\* returned, whether the constructor ran and whether it raised
GetMatlab(p, made, ctor) ==
    IF p = None
    THEN IF ctor = "ok"
         THEN [proc |-> MatlabProcess(made + 1, ModelPath),
               ml |-> MatlabProcess(made + 1, ModelPath), ctor |-> 1, made |-> 1, exc |-> "none"]
         ELSE [proc |-> p, ml |-> None, ctor |-> 1, made |-> 0, exc |-> "CtorError"]
    ELSE [proc |-> p, ml |-> p, ctor |-> 0, made |-> 0, exc |-> "none"]

----------------------------------------------------------------------------
(* Inputs *)

\* the extra keyword arguments a caller may add, as (name, value) pairs
Kwds == {<<>>, << <<"_transfer", "False">> >>}

Waveforms ==
    {A1(n) : n \in 0..MaxSize}
    \cup {A2(rc[1], rc[2]) : rc \in {x \in (1..MaxSize) \X (1..MaxSize) : x[1] * x[2] <= MaxSize}}

\* what the caller passes for each parameter of model_ihc
IhcInputs ==
    [pin : Waveforms, CF : {R(1)}, nrep : {I(5)},
     tdres : {F(10), I(2)}, reptime : {I(2), F(10 * MaxSize)},
     cohc : {I(1)}, cihc : {F(0)}, species : {I(3)}, kwds : Kwds]

\* what the caller passes for each parameter of model_synapse
SynInputs ==
    [vihc : Waveforms \cup {R(9)}, CF : {F(10000)}, nrep : {I(5)},
     tdres : {R(3)}, fiberType : {I(3)}, noiseType : {I(1)},
     implnt : {F(0)}, kwds : Kwds]

Seeds == {I(3), F(-27)}

\* what the worker may answer to model_IHC and to model_Synapse
IhcAnswers == {<<"ok", <<"vihc_a">>>>, <<"ok", <<"vihc_b">>>>, <<"raise", <<>>>>}
SynAnswers == {<<"ok", <<"meanrate", "varrate", "psth">>>>, <<"raise", <<>>>>}

----------------------------------------------------------------------------
(* The calls *)

\* the record kept of the last call made
Call(op, in) ==
    [op |-> op, in |-> in, exc |-> "none", reached |-> FALSE, ml |-> None,
     fn |-> "", fargs |-> <<>>, fkwds |-> <<>>, fnargout |-> 0, invoked |-> 0,
     wret |-> <<>>, ret |-> <<>>, cmd |-> ""]

NoCall == Call("none", <<>>)

\* the conversion loop without the float() call
ConvertSkipped(arg) == arg

\* the conversion loop of model_ihc and model_synapse
Convert(arg) == IF IsRef(arg) THEN arg ELSE ToFloat(arg)

\* args of model_ihc
IhcArgs(in) ==
    <<RowVector(in.pin), Convert(in.CF), Convert(in.nrep), Convert(in.tdres),
      Convert(in.reptime), Convert(in.cohc), Convert(in.cihc), Convert(in.species)>>

\* the assertion with > in place of >=
IhcAssertStrict(in) == Tenths(in.reptime) > Size(in.pin) * Tenths(in.tdres)

\* assert reptime >= pin.size * tdres
IhcAssert(in) == Tenths(in.reptime) >= Size(in.pin) * Tenths(in.tdres)

\* vihc after the isinstance test of model_synapse
SynWave(vihc) == IF IsArray(vihc) THEN RowVector(vihc) ELSE vihc

\* args of model_synapse
SynArgs(in) ==
    <<SynWave(in.vihc), Convert(in.CF), Convert(in.nrep), Convert(in.tdres),
      Convert(in.fiberType), Convert(in.noiseType), Convert(in.implnt)>>

\* nargout set on model_IHC whatever the function
SetNargoutIhc(no, fn, n) == [no EXCEPT !["model_IHC"] = n]

\* fn.nargout = n
SetNargout(no, fn, n) == [no EXCEPT ![fn] = n]

\* the function model_ihc looks up and the output count it sets
IhcFn == [name |-> "model_IHC", nargout |-> 1]

\* the function model_synapse looks up and the output count it sets
SynFn == [name |-> "model_Synapse", nargout |-> 3]

\* the call without the return
ReturnedNothing(answer) == <<>>

\* return fn(*args, **kwds)
Returned(answer) == answer[2]

\* "...%d..." % seed
SeedCmd(seed) ==
    "RandStream.setGlobalStream(RandStream('mcg16807','seed'," \o ToString(seed.v) \o "));"

\* the window of the last MaxSent commands the worker received
Remember(log, e) ==
    IF Len(log) < MaxSent THEN Append(log, e) ELSE Append(Tail(log), e)

\* ml = get_matlab() inside a call: the handle and the counters
Reach(g) ==
    /\ proc' = g.proc
    /\ ctorCalls' = ctorCalls + g.ctor
    /\ created' = created + g.made
    /\ anyReached' = TRUE

\* get_matlab() called directly
GetMatlabCall ==
    \E ctor \in CtorOutcomes(proc, ctorCalls, created) :
        LET g == GetMatlab(proc, created, ctor) IN
        /\ Reach(g)
        /\ last' = [Call("get_matlab", <<>>) EXCEPT
                        !.reached = TRUE, !.exc = g.exc, !.ml = g.ml, !.ret = g.ml]
        /\ UNCHANGED <<nargout, sent, thrVars>>

\* the tail shared by model_ihc and model_synapse: get_matlab, look the
\* function up, set nargout, call it, return its answer
Forward(c, f, args, kwds, answers) ==
    \E ctor \in CtorOutcomes(proc, ctorCalls, created) :
        LET g == GetMatlab(proc, created, ctor) IN
        /\ Reach(g)
        /\ IF g.exc # "none"
           THEN /\ last' = [c EXCEPT !.reached = TRUE, !.exc = g.exc]
                /\ UNCHANGED nargout
           ELSE \E answer \in answers :
                /\ nargout' = SetNargout(nargout, f.name, f.nargout)
                /\ last' = [c EXCEPT !.reached = TRUE, !.ml = g.ml, !.fn = f.name,
                               !.fargs = args, !.fkwds = kwds,
                               !.fnargout = nargout'[f.name], !.invoked = 1,
                               !.exc = IF answer[1] = "ok" THEN "none" ELSE "WorkerError",
                               !.wret = IF answer[1] = "ok" THEN answer[2] ELSE <<>>,
                               !.ret = IF answer[1] = "ok" THEN Returned(answer) ELSE <<>>]

ModelIhc ==
    \E in \in IhcInputs :
        /\ IF ~IhcAssert(in)
           THEN /\ last' = [Call("model_ihc", in) EXCEPT !.exc = "AssertionError"]
                /\ UNCHANGED <<proc, ctorCalls, created, anyReached, nargout>>
           ELSE Forward(Call("model_ihc", in), IhcFn, IhcArgs(in), in.kwds, IhcAnswers)
        /\ UNCHANGED <<sent, thrVars>>

ModelSynapse ==
    \E in \in SynInputs :
        /\ Forward(Call("model_synapse", in), SynFn, SynArgs(in), in.kwds, SynAnswers)
        /\ UNCHANGED <<sent, thrVars>>

SeedRng ==
    \E seed \in Seeds, ctor \in CtorOutcomes(proc, ctorCalls, created) :
        LET g == GetMatlab(proc, created, ctor)
            cmd == SeedCmd(ToInt(seed))
            c == Call("seed_rng", seed) IN
        /\ Reach(g)
        /\ IF g.exc # "none"
           THEN /\ last' = [c EXCEPT !.reached = TRUE, !.exc = g.exc]
                /\ UNCHANGED sent
           ELSE /\ last' = [c EXCEPT !.reached = TRUE, !.ml = g.ml, !.cmd = cmd]
                /\ sent' = Remember(sent, [seed |-> seed, cmd |-> cmd, ml |-> g.ml])
        /\ UNCHANGED <<nargout, thrVars>>

Init ==
    /\ proc = None
    /\ ctorCalls = 0
    /\ created = 0
    /\ anyReached = FALSE
    /\ nargout = [f \in {"model_IHC", "model_Synapse"} |-> 0]
    /\ sent = <<>>
    /\ last = NoCall
    /\ pc = [t \in 1..NThreads |-> "idle"]
    /\ via = [t \in 1..NThreads |-> "none"]
    /\ tmp = [t \in 1..NThreads |-> None]
    /\ got = [t \in 1..NThreads |-> None]

Next == GetMatlabCall \/ ModelIhc \/ ModelSynapse \/ SeedRng

Spec == Init /\ [][Next]_vars

----------------------------------------------------------------------------
(* get_matlab run by NThreads threads, one statement at a time.  Nothing    *)
(* in the module serialises the callers.                                    *)

EntryPoints == {"get_matlab", "model_ihc", "model_synapse", "seed_rng"}

\* a thread calls get_matlab, directly or from one of the three wrappers
Enter(t) ==
    /\ pc[t] = "idle"
    /\ \E e \in EntryPoints : via' = [via EXCEPT ![t] = e]
    /\ pc' = [pc EXCEPT ![t] = "test"]
    /\ anyReached' = TRUE
    /\ UNCHANGED <<proc, ctorCalls, created, nargout, sent, last, tmp, got>>

\* if _proc is None:
TestNone(t) ==
    /\ pc[t] = "test"
    /\ pc' = [pc EXCEPT ![t] = IF proc = None THEN "ctor" ELSE "ret"]
    /\ UNCHANGED <<proc, ctorCalls, created, anyReached, nargout, sent, last, via, tmp, got>>

\* matlab_proc.MatlabProcess(cwd=model_path), the right-hand side of line 14
Construct(t) ==
    /\ pc[t] = "ctor"
    /\ ctorCalls' = ctorCalls + 1
    /\ \E ctor \in CtorOutcomes(None, ctorCalls, created) :
        IF ctor = "ok"
        THEN /\ tmp' = [tmp EXCEPT ![t] = MatlabProcess(created + 1, ModelPath)]
             /\ created' = created + 1
             /\ pc' = [pc EXCEPT ![t] = "store"]
             /\ UNCHANGED got
        ELSE /\ got' = [got EXCEPT ![t] = None]
             /\ pc' = [pc EXCEPT ![t] = "idle"]
             /\ UNCHANGED <<tmp, created>>
    /\ UNCHANGED <<proc, anyReached, nargout, sent, last, via>>

\* _proc = ..., the assignment of line 14
Store(t) ==
    /\ pc[t] = "store"
    /\ proc' = tmp[t]
    /\ pc' = [pc EXCEPT ![t] = "ret"]
    /\ UNCHANGED <<ctorCalls, created, anyReached, nargout, sent, last, via, tmp, got>>

\* return _proc
Return(t) ==
    /\ pc[t] = "ret"
    /\ got' = [got EXCEPT ![t] = proc]
    /\ pc' = [pc EXCEPT ![t] = "idle"]
    /\ UNCHANGED <<proc, ctorCalls, created, anyReached, nargout, sent, last, via, tmp>>

NextConc ==
    \E t \in 1..NThreads :
        Enter(t) \/ TestNone(t) \/ Construct(t) \/ Store(t) \/ Return(t)

SpecConc == Init /\ [][NextConc]_vars

----------------------------------------------------------------------------
(* Properties *)

\* a call in which get_matlab returned the handle
Obtained == last.reached /\ last.exc # "CtorError"

\* C1 as stated: the constructor is invoked at most once, every call gets the
\* one instance, and a handle that is set is never reassigned or reset.
C1_InvokedAtMostOnce ==
    /\ [](/\ ctorCalls <= 1
          /\ Obtained => last.ml = proc /\ proc # None
          /\ \A i \in 1..Len(sent) : sent[i].ml = proc)
    /\ [][proc # None => proc' = proc]_vars

\* C1 amended: the constructor returns an instance at most once (an attempt
\* that raised may be followed by another), every call that obtains a handle
\* obtains that one instance, and a handle that is set is never reassigned
\* or reset.
C1_Singleton ==
    /\ [](/\ created <= 1
          /\ Obtained => last.ml = proc /\ proc # None
          /\ \A i \in 1..Len(sent) : sent[i].ml = proc)
    /\ [][proc # None => proc' = proc]_vars

\* a failed attempt, then seed_rng and model_ihc sharing the instance
C1_Witness ==
    /\ ctorCalls = 2
    /\ Len(sent) > 0
    /\ last.op = "model_ihc"
    /\ last.invoked = 1
    /\ last.ml = sent[1].ml

\* C2 as stated: nothing exists before the first call, the process comes to
\* exist exactly at the first call that reaches get_matlab, with the model
\* directory as its working directory.
C2_AtFirstReach ==
    /\ [](/\ ~anyReached => proc = None /\ created = 0 /\ ctorCalls = 0
          /\ proc # None => proc.cwd = <<"nrnlibrary", "an_model", "model">>)
    /\ [][(proc = None /\ proc' # None) <=> (~anyReached /\ last'.reached)]_vars

\* C2 amended: nothing exists before the first call, the process comes to
\* exist exactly at the first call that reaches get_matlab and whose
\* constructor does not raise, with the model directory as its working
\* directory; the constructor runs only in a call that reaches get_matlab.
C2_Lazy ==
    /\ [](/\ ~anyReached => proc = None /\ created = 0 /\ ctorCalls = 0
          /\ proc # None => proc.cwd = <<"nrnlibrary", "an_model", "model">>)
    /\ [][/\ (proc = None /\ proc' # None)
               <=> (proc = None /\ last'.reached /\ last'.exc # "CtorError")
          /\ ctorCalls' # ctorCalls => proc = None /\ last'.reached]_vars

\* the process made by a model_synapse call that came after a failed attempt
C2_Witness ==
    /\ proc # None
    /\ ctorCalls = 2
    /\ last.op = "model_synapse"
    /\ last.ml.cwd = <<"nrnlibrary", "an_model", "model">>

\* C9: when the constructor raises the handle stays None, the error reaches
\* the caller and nothing is forwarded; the next call that reaches
\* get_matlab runs the constructor again.
C9_FailedCtorLeavesNone ==
    /\ [](last.exc = "CtorError" =>
            /\ proc = None
            /\ last.ml = None
            /\ last.invoked = 0
            /\ last.cmd = "")
    /\ [][(last.exc = "CtorError" /\ last'.reached) => ctorCalls' = ctorCalls + 1]_vars

\* a get_matlab call that succeeded right after the constructor had raised
C9_Witness ==
    /\ last.op = "get_matlab"
    /\ last.ret # None
    /\ ctorCalls = 2
    /\ created = 1

\* C10: with concurrent callers at most one MatlabProcess is constructed and
\* all callers obtain the same instance.
C10_ConcurrentSingleton ==
    /\ created <= 1
    /\ \A t, u \in 1..NThreads : (got[t] # None /\ got[u] # None) => got[t] = got[u]

\* the number of samples of a waveform, from its shape
Samples(a) == IF a.t = "ndarray1" THEN Len(a.v) ELSE Len(a.v) * Len(a.v[1])

\* C3: model_ihc forwards a call only if reptime >= pin.size * tdres, with
\* equality accepted; a shorter reptime fails with an assertion error before
\* the worker is touched: nothing forwarded, no nargout set, no process made.
C3_ReptimeCoversStimulus ==
    /\ [](last.op = "model_ihc" =>
            LET dur == Samples(last.in.pin) * Tenths(last.in.tdres)
                rep == Tenths(last.in.reptime) IN
            /\ last.invoked = 1 => rep >= dur
            /\ rep >= dur => last.exc # "AssertionError" /\ last.reached
            /\ rep < dur =>
                /\ last.exc = "AssertionError"
                /\ ~last.reached
                /\ last.invoked = 0
                /\ last.fn = ""
                /\ last.fnargout = 0)
    /\ [][(last'.op = "model_ihc" /\ last'.exc = "AssertionError") =>
            UNCHANGED <<proc, ctorCalls, created, nargout, sent>>]_vars

\* a rejected model_ihc call made before any process existed
C3_Witness ==
    /\ last.op = "model_ihc"
    /\ last.exc = "AssertionError"
    /\ Samples(last.in.pin) = 3
    /\ proc = None
    /\ ctorCalls = 0

\* y is what must reach the worker for the caller's scalar x
DoubleOrSameRef(x, y) ==
    IF x.t = "ref" THEN y = x
    ELSE /\ y.t = "float"
         /\ y.v = (IF x.t = "int" THEN 10 * x.v ELSE x.v)

\* C4: every forwarded scalar is a double or the caller's reference, and the
\* positional arguments are the waveform followed by the scalars in the
\* order of the signature: 8 for model_ihc, 7 for model_synapse.
C4_ForwardedArguments ==
    last.invoked = 1 =>
        LET a == last.fargs
            in == last.in IN
        IF last.op = "model_ihc"
        THEN /\ last.fn = "model_IHC"
             /\ Len(a) = 8
             /\ a[1].t = "ndarray2"
             /\ DoubleOrSameRef(in.CF, a[2])
             /\ DoubleOrSameRef(in.nrep, a[3])
             /\ DoubleOrSameRef(in.tdres, a[4])
             /\ DoubleOrSameRef(in.reptime, a[5])
             /\ DoubleOrSameRef(in.cohc, a[6])
             /\ DoubleOrSameRef(in.cihc, a[7])
             /\ DoubleOrSameRef(in.species, a[8])
        ELSE /\ last.op = "model_synapse"
             /\ last.fn = "model_Synapse"
             /\ Len(a) = 7
             /\ a[1].t \in {"ndarray2", "ref"}
             /\ DoubleOrSameRef(in.CF, a[2])
             /\ DoubleOrSameRef(in.nrep, a[3])
             /\ DoubleOrSameRef(in.tdres, a[4])
             /\ DoubleOrSameRef(in.fiberType, a[5])
             /\ DoubleOrSameRef(in.noiseType, a[6])
             /\ DoubleOrSameRef(in.implnt, a[7])

\* a forwarded model_ihc call with a reference, an int and a float among its scalars
C4_Witness ==
    /\ last.op = "model_ihc"
    /\ last.invoked = 1
    /\ last.in.CF.t = "ref"
    /\ last.in.tdres.t = "int"
    /\ last.in.reptime.t = "float"

\* C5: model_IHC is invoked with nargout 1 and model_Synapse with nargout 3,
\* whatever calls came before.
C5_NargoutSetBeforeInvoke ==
    /\ last.invoked = 1 =>
        /\ last.fn = "model_IHC" => last.fnargout = 1
        /\ last.fn = "model_Synapse" => last.fnargout = 3
        /\ last.fn \in {"model_IHC", "model_Synapse"}
    /\ nargout["model_IHC"] \in {0, 1}
    /\ nargout["model_Synapse"] \in {0, 3}

\* model_ihc invoked after model_synapse had set its own output count
C5_Witness ==
    /\ last.fn = "model_IHC"
    /\ last.invoked = 1
    /\ nargout["model_Synapse"] = 3

\* y is the array x as one row: same elements, same (C) order
IsRowOf(y, x) ==
    /\ y.t = "ndarray2"
    /\ Len(y.v) = 1
    /\ Len(y.v[1]) = Samples(x)
    /\ IF x.t = "ndarray1"
       THEN \A k \in 1..Len(x.v) : y.v[1][k] = x.v[k]
       ELSE \A i \in 1..Len(x.v) : \A j \in 1..Len(x.v[1]) :
                y.v[1][(i - 1) * Len(x.v[1]) + j] = x.v[i][j]

\* C6: the waveform is forwarded as a 1 x size row vector with the same
\* elements in the same order; model_synapse forwards a non-array unchanged.
C6_RowVector ==
    last.invoked = 1 =>
        /\ last.op = "model_ihc" => IsRowOf(last.fargs[1], last.in.pin)
        /\ last.op = "model_synapse" =>
            IF last.in.vihc.t \in {"ndarray1", "ndarray2"}
            THEN IsRowOf(last.fargs[1], last.in.vihc)
            ELSE last.fargs[1] = last.in.vihc

\* a 2 x 2 waveform forwarded by model_ihc
C6_Witness ==
    /\ last.op = "model_ihc"
    /\ last.invoked = 1
    /\ last.in.pin.t = "ndarray2"
    /\ Len(last.in.pin.v) = 2
    /\ Len(last.in.pin.v[1]) = 2

\* int(seed) for the seeds of the model: the integer part, sign kept
IntegerPart(x) ==
    IF x.t = "int" THEN x.v
    ELSE CHOOSE k \in -10..10 :
            IF x.v >= 0 THEN 10 * k <= x.v /\ x.v < 10 * k + 10
            ELSE 10 * k >= x.v /\ x.v > 10 * k - 10

====
